---- MODULE Spec2Model ----
(***************************************************************************)
(* To-do list: the in-memory Task Store of the backend (Todo model and     *)
(* its controller) and the browser's Storage module, whose recycle bin     *)
(* lives in localStorage.  Every Storage function is a handler that runs   *)
(* from one suspension point (await) to the next; a fetch either reaches   *)
(* the Task Store, which applies the request, or fails in transport, in    *)
(* which case the Task Store is not touched.                               *)
(*                                                                         *)
(* The module holds seven specifications over one state:                    *)
(*   Spec          the Storage calls of the page, one call at a time;       *)
(*   SpecStore     requests sent to the Task Store's routes directly;       *)
(*   SpecDates     getDatesWithTasks over Task Stores of dated tasks;       *)
(*   SpecCalendar  the calendar's handlers, one at a time;                  *)
(*   SpecModal     the recycle-bin modal's handlers, overlapping;           *)
(*   SpecCalendarOverlap  the calendar's handlers, overlapping;            *)
(*   SpecPage      the page's delete and recycle-bin handlers.              *)
(*                                                                         *)
(* Time is counted in days.  An ISO timestamp written by toISOString and   *)
(* read back by new Date(...) denotes the same instant, so a timestamp is  *)
(* the integer it denotes.                                                 *)
(***************************************************************************)
EXTENDS Integers, Sequences, FiniteSets, TLC

\* ---------------------------------------------------------------- bounds
MaxId == 2
MaxBin == 2
MaxNow == 60
NumHandlers == 1
NumOverlapping == 2
MaxDated == 4
MinYear == 2024
MaxYear == 2051
MaxNav == 2

Handlers == 1..NumHandlers

\* the clicks on the recycle-bin modal's buttons, which stay clickable while a
\* restore awaits: their handlers are not held back by one another
Overlapping == (NumHandlers + 1)..(NumHandlers + NumOverlapping)
Ids == 1..MaxId

\* ------------------------------------------------------- program values
\* thirtyDaysAgo.setDate(thirtyDaysAgo.getDate() - 30)
RetentionDays == 30

\* the clock is read one retention window apart
TickSteps == {RetentionDays}

\* the days of the month the user clicks
ClickDays == {1}

Titles == {"a"}
DueDateInputs == {"d1"}
CategoryOptions == {"home"}

Undefined == "undefined"
Null == "null"
EmptyObject == <<>>

\* the dueDate values a stored task can carry: a date of the form's date input,
\* '' when that input was left empty, null when the request carried none
DueDates == {"2024-01-05", "2024-02-01", "", Null}

\* the bodies of the requests sent to the Task Store directly: a title that is
\* missing, empty or given, with or without a category and an id (0: without)
RequestTitles == {Undefined, "", "a"}
RequestCategories == {Undefined, "home"}
RequestBodyIds == {0} \cup Ids

\* the :id of a request's path: the ids handed out, one never handed out, and
\* a path segment that is not a number
RequestParams == {ToString(n) : n \in 1..(MaxId + 1)} \cup {"x"}

\* ------------------------------------------------------------ JS objects
\* obj.k : a missing property reads as undefined
Get(obj, k) == IF k \in DOMAIN obj THEN obj[k] ELSE Undefined

\* {...a, ...b}
Spread(a, b) ==
  [k \in (DOMAIN a) \cup (DOMAIN b) |-> IF k \in DOMAIN b THEN b[k] ELSE a[k]]

\* delete obj.k
DeleteProp(obj, k) == [f \in (DOMAIN obj) \ {k} |-> obj[f]]

\* !v for the values a title or a dueDate can take
Falsy(v) == v \in {"", Undefined, Null}

\* an object literal with the properties that are given
Object(title, category, id) ==
  [k \in {f \in {"title", "category", "id"} :
            (f = "title" /\ title # Undefined)
              \/ (f = "category" /\ category # Undefined)
              \/ (f = "id" /\ id # 0)} |->
     IF k = "title" THEN title ELSE IF k = "category" THEN category ELSE id]

\* parseInt(id) of a path segment; NaN, which equals no id, is -1
NaN == -1
ParseInt(str) ==
  IF \E n \in 0..(MaxId + 1) : ToString(n) = str
  THEN CHOOSE n \in 0..(MaxId + 1) : ToString(n) = str
  ELSE NaN

\* array.findIndex(x => x.id === id), 0 standing for -1
FindIndex(s, id) ==
  IF \E i \in 1..Len(s) : s[i].id = id
  THEN CHOOSE i \in 1..Len(s) :
         /\ s[i].id = id
         /\ \A j \in 1..(i - 1) : s[j].id # id
  ELSE 0

\* the elements of an array
Elems(s) == {s[i] : i \in 1..Len(s)}

\* array.splice(i, 1)
Splice(s, i) == SubSeq(s, 1, i - 1) \o SubSeq(s, i + 1, Len(s))

\* --------------------------------------------------------------- JS Date
\* a Date is its local year, month (0..11) and date (day of the month)
Leap(year) == (year % 4 = 0 /\ year % 100 # 0) \/ year % 400 = 0

DaysInMonth(year, month) ==
  IF month = 1 THEN (IF Leap(year) THEN 29 ELSE 28)
  ELSE IF month \in {3, 5, 8, 10} THEN 30 ELSE 31

DaysInYear(year) == IF Leap(year) THEN 366 ELSE 365

\* new Date(year, month, date): a month outside 0..11 and a date outside the
\* month roll over into the neighbouring year and months
RECURSIVE NewDate(_, _, _)
NewDate(year, month, date) ==
  IF month < 0 \/ month > 11
  THEN NewDate(year + (month \div 12), month % 12, date)
  ELSE IF date < 1
  THEN LET py == IF month = 0 THEN year - 1 ELSE year
           pm == IF month = 0 THEN 11 ELSE month - 1
       IN NewDate(py, pm, date + DaysInMonth(py, pm))
  ELSE IF month = 0 /\ date > DaysInYear(year)
  THEN NewDate(year + 1, 0, date - DaysInYear(year))
  ELSE IF date > DaysInMonth(year, month)
  THEN NewDate(year, month + 1, date - DaysInMonth(year, month))
  ELSE [year |-> year, month |-> month, date |-> date]

\* the days from 1 January 2000, a Saturday, to d
RECURSIVE DaysBeforeMonth(_, _)
DaysBeforeMonth(year, month) ==
  IF month = 0 THEN 0
  ELSE DaysBeforeMonth(year, month - 1) + DaysInMonth(year, month - 1)

DaysSince2000(d) ==
  365 * (d.year - 2000) + Cardinality({y \in 2000..(d.year - 1) : Leap(y)})
    + DaysBeforeMonth(d.year, d.month) + (d.date - 1)

\* date.getDay(): 0 = Sunday, 6 = Saturday
GetDay(d) == (6 + DaysSince2000(d)) % 7

\* date.setMonth(month)
SetMonth(d, month) == NewDate(d.year, month, d.date)

\* String(n).padStart(2, '0')
PadStart2(n) == IF n < 10 THEN "0" \o ToString(n) ELSE ToString(n)

\* formatDate: YYYY-MM-DD
FormatDate(d) ==
  ToString(d.year) \o "-" \o PadStart2(d.month + 1) \o "-" \o PadStart2(d.date)

IsSameDay(date1, date2) ==
  /\ date1.year = date2.year
  /\ date1.month = date2.month
  /\ date1.date = date2.date

\* day 0 of the clock is 15 January 2024
Origin == [year |-> 2024, month |-> 0, date |-> 15]

\* the days the page is loaded on: 15 February of each year, which over 28
\* years starts on every weekday with 28 and with 29 days, and 31 January of
\* the first year
LoadDates ==
  {NewDate(y, 1, 15) : y \in MinYear..MaxYear} \cup {NewDate(MinYear, 0, 31)}

\* the same days on the clock
LoadDays == {DaysSince2000(d) - DaysSince2000(Origin) : d \in LoadDates}

\* the months between two dates
MonthsFrom(d, e) == (12 * e.year + e.month) - (12 * d.year + d.month)

\* ------------------------------------------------------------ Task Store
\* new Todo(title, description = '', dueDate = null)
Todo(title, description, dueDate, id, t) ==
  [id |-> id,
   title |-> title,
   description |-> IF description = Undefined THEN "" ELSE description,
   dueDate |-> IF dueDate = Undefined THEN Null ELSE dueDate,
   completed |-> FALSE,
   createdAt |-> t]

\* Todo.create: only title, description and dueDate are read from the body
TodoCreate(todoData, id, t) ==
  Todo(Get(todoData, "title"), Get(todoData, "description"),
       Get(todoData, "dueDate"), id, t)

\* Todo.update
TodoUpdateKeepsBodyId(td, id, updates) ==
  LET i == FindIndex(td, id)
  IN IF i = 0 THEN td ELSE [td EXCEPT ![i] = Spread(td[i], updates)]

TodoUpdate(td, id, updates) ==
  LET i == FindIndex(td, id)
  IN IF i = 0 THEN td
     ELSE [td EXCEPT ![i] = Spread(Spread(td[i], updates), [id |-> id])]

\* Todo.delete
TodoDelete(td, id) ==
  LET i == FindIndex(td, id) IN IF i = 0 THEN td ELSE Splice(td, i)

\* controller status codes
CreateStatus(body) == IF Falsy(Get(body, "title")) THEN 400 ELSE 201
UpdateStatusAlwaysOk(td, id) == 200

UpdateStatus(td, id) == IF FindIndex(td, id) = 0 THEN 404 ELSE 200
DeleteStatus(td, id) == IF FindIndex(td, id) = 0 THEN 404 ELSE 204

\* response.ok
ResponseOk(status) == status \in 200..299

\* ------------------------------------------------------- Storage helpers
\* getTasks: the list on a good response, [] when the fetch fails
GetTasks(td, reached) == IF reached THEN td ELSE <<>>

\* allTasks.find(task => task.id === taskId), as an index, 0 for undefined
TaskToRecycleAny(allTasks, taskId) == IF Len(allTasks) = 0 THEN 0 ELSE 1

TaskToRecycle(allTasks, taskId) == FindIndex(allTasks, taskId)

\* recycledTasks.findIndex(task => task.id === taskId), 0 for -1
TaskIndexAny(recycledTasks, taskId) == IF Len(recycledTasks) = 0 THEN 0 ELSE 1

TaskIndex(recycledTasks, taskId) == FindIndex(recycledTasks, taskId)

\* taskToRecycle.deletedAt = new Date().toISOString()
StampWrong(task, t) == Spread(task, [deletedAt |-> task.createdAt - 1])

Stamp(task, t) == Spread(task, [deletedAt |-> t])

\* recycledTasks.push(taskToRecycle), written back to localStorage
PushSkipped(recycled, entry) == recycled

PushRestamps(recycled, entry) ==
  Append([j \in 1..Len(recycled) |->
            IF recycled[j].id = entry.id
            THEN Spread(recycled[j], [deletedAt |-> entry.deletedAt])
            ELSE recycled[j]],
         entry)

Push(recycled, entry) == Append(recycled, entry)

\* permanentlyDeleteTask's filter
FilterIdFirstOnly(recycled, id) ==
  LET i == FindIndex(recycled, id)
  IN IF i = 0 THEN recycled ELSE Splice(recycled, i)

FilterId(recycled, id) ==
  LET Keep(task) == task.id # id IN SelectSeq(recycled, Keep)

\* emptyRecycleBin's stored value
EmptiedKeepsOne(recycled) ==
  IF Len(recycled) > 1 THEN Tail(recycled) ELSE <<>>

Emptied(recycled) == <<>>

\* cleanupRecycleBin's filter: keeps deletedDate > thirtyDaysAgo
FilterExpired(recycled, t) ==
  LET thirtyDaysAgo == t - RetentionDays
      Keep(task) == task.deletedAt > thirtyDaysAgo
  IN SelectSeq(recycled, Keep)

\* getDatesWithTasks: dates.add(task.dueDate) on a Set, which keeps insertion order
SetAddAlways(dates, d) == Append(dates, d)

SetAdd(dates, d) == IF d \in Elems(dates) THEN dates ELSE Append(dates, d)

\* tasks.forEach(task => { if (task.dueDate) dates.add(task.dueDate) })
RECURSIVE ForEachDate(_, _)
ForEachDate(dates, tasks) ==
  IF tasks = <<>> THEN dates
  ELSE LET dueDate == Get(Head(tasks), "dueDate")
       IN ForEachDate(IF Falsy(dueDate) THEN dates ELSE SetAdd(dates, dueDate),
                      Tail(tasks))

\* Array.from(dates)
DatesWithTasks(tasks) == ForEachDate(<<>>, tasks)

\* ----------------------------------------------------------------- state
VARIABLES
  todos,     \* backend: let todos = []
  nextId,    \* backend: let nextId = 1
  bin,       \* localStorage['recycledTasks'], parsed
  now,       \* the clock, in days
  pc,        \* pc[h]: where handler h is suspended
  loc,       \* loc[h]: the local variables of handler h
  last,      \* the call that completed most recently, until the next call starts
  currentDate,   \* calendar: let currentDate = new Date()
  selectedDate,  \* calendar: let selectedDate = new Date()
  calendarDays   \* calendar: the children of the #calendar-days element

vars == <<todos, nextId, bin, now, pc, loc, last, currentDate, selectedDate, calendarDays>>

\* the calendar module's state
calendar == <<currentDate, selectedDate, calendarDays>>

\* new Date()
Today == NewDate(Origin.year, Origin.month, Origin.date + now)

IdleLoc ==
  [taskId |-> 0, body |-> EmptyObject, recycledTasks |-> <<>>, taskIndex |-> 0,
   found |-> FALSE, ok |-> FALSE, stamp |-> 0, posts |-> 0,
   todos0 |-> <<>>, bin0 |-> <<>>]

NoLast ==
  [op |-> "none", taskId |-> 0, found |-> FALSE, ok |-> FALSE, stamp |-> 0,
   posts |-> 0, ret |-> <<>>, todos0 |-> <<>>, bin0 |-> <<>>]

Init ==
  /\ todos = <<>>
  /\ nextId = 1
  /\ bin = <<>>
  /\ now = 0
  /\ pc = [h \in Handlers |-> "idle"]
  /\ loc = [h \in Handlers |-> IdleLoc]
  /\ last = NoLast
  /\ currentDate = Today
  /\ selectedDate = Today
  /\ calendarDays = <<>>

AllIdle == \A h \in Handlers : pc[h] = "idle"

\* one user action at a time: a call starts when no call is in flight
Free(h) == pc[h] = "idle" /\ AllIdle

\* a call starts: its locals are fresh and remember the two stores
Enter(h, to, l) ==
  /\ Free(h)
  /\ pc' = [pc EXCEPT ![h] = to]
  /\ loc' = [loc EXCEPT ![h] = Spread(Spread(IdleLoc, [todos0 |-> todos, bin0 |-> bin]), l)]
  /\ last' = NoLast

\* a call moves to its next suspension point
Goto(h, to, l) ==
  /\ pc' = [pc EXCEPT ![h] = to]
  /\ loc' = [loc EXCEPT ![h] = Spread(loc[h], l)]
  /\ UNCHANGED last

\* a call returns ret
Return(h, op, l, ret) ==
  /\ pc' = [pc EXCEPT ![h] = "idle"]
  /\ loc' = [loc EXCEPT ![h] = IdleLoc]
  /\ last' = [op |-> op, taskId |-> l.taskId, found |-> l.found, ok |-> l.ok,
              stamp |-> l.stamp, posts |-> l.posts, ret |-> ret,
              todos0 |-> l.todos0, bin0 |-> l.bin0]

\* the ids the model lets the Task Store hand out: MaxId, and one more for
\* each handler that can overlap another
IdCap == MaxId + Cardinality(DOMAIN pc \ Handlers)

\* POST /api/todos answered: createTodo applied, or the fetch failed
PostAnswered(h, to) ==
  \/ /\ nextId <= IdCap
     /\ LET status == CreateStatus(loc[h].body)
        IN /\ IF status = 201
              THEN /\ todos' = Append(todos, TodoCreate(loc[h].body, nextId, now))
                   /\ nextId' = nextId + 1
              ELSE UNCHANGED <<todos, nextId>>
           /\ Goto(h, to, [ok |-> ResponseOk(status)])
  \/ /\ UNCHANGED <<todos, nextId>>
     /\ Goto(h, to, [ok |-> FALSE])

\* ------------------------------------------- requests to the Task Store
\* a request answered by its controller, and what the store held before it
Answered(op, param, body, status) ==
  last' = Spread(NoLast, [op |-> op, param |-> param, body |-> body, status |-> status,
                          todos0 |-> todos, nextId0 |-> nextId])

\* POST /api/todos
CreateTodo ==
  \E title \in RequestTitles, category \in RequestCategories, id \in RequestBodyIds :
    LET body == Object(title, category, id)
        status == CreateStatus(body)
    IN /\ nextId <= MaxId
       /\ IF status = 201
          THEN /\ todos' = Append(todos, TodoCreate(body, nextId, now))
               /\ nextId' = nextId + 1
          ELSE UNCHANGED <<todos, nextId>>
       /\ Answered("createTodo", Undefined, body, status)
       /\ UNCHANGED <<bin, now, pc, loc, calendar>>

\* PUT /api/todos/:id
UpdateTodo ==
  \E param \in RequestParams, title \in RequestTitles,
     category \in RequestCategories, id \in RequestBodyIds :
    LET body == Object(title, category, id)
    IN /\ todos' = TodoUpdate(todos, ParseInt(param), body)
       /\ Answered("updateTodo", param, body, UpdateStatus(todos, ParseInt(param)))
       /\ UNCHANGED <<nextId, bin, now, pc, loc, calendar>>

\* DELETE /api/todos/:id
DeleteTodo ==
  \E param \in RequestParams :
    /\ todos' = TodoDelete(todos, ParseInt(param))
    /\ Answered("deleteTodo", param, EmptyObject, DeleteStatus(todos, ParseInt(param)))
    /\ UNCHANGED <<nextId, bin, now, pc, loc, calendar>>

\* ------------------------------------------------------ Storage.addTask
\* the add-task form's save handler calls Storage.addTask(newTask)
AddTask(h) ==
  \E title \in Titles, dueDate \in DueDateInputs, category \in CategoryOptions :
    /\ Enter(h, "add_post",
             [body |-> [title |-> title, dueDate |-> dueDate, category |-> category,
                        completed |-> FALSE, createdAt |-> now],
              posts |-> 1])
    /\ UNCHANGED <<todos, nextId, bin, now, calendar>>

AddPost(h) ==
  /\ pc[h] = "add_post"
  /\ PostAnswered(h, "add_get")
  /\ UNCHANGED <<bin, now, calendar>>

AddGet(h) ==
  /\ pc[h] = "add_get"
  /\ \E reached \in BOOLEAN : Return(h, "add", loc[h], GetTasks(todos, reached))
  /\ UNCHANGED <<todos, nextId, bin, now, calendar>>

\* --------------------------------------------------- Storage.updateTask
\* the edit form's update handler calls Storage.updateTask(taskId, {...task, ...})
UpdateTask(h) ==
  \E i \in 1..Len(todos), title \in Titles, dueDate \in DueDateInputs,
     category \in CategoryOptions :
    /\ Enter(h, "upd_put",
             [taskId |-> todos[i].id,
              body |-> Spread(todos[i], [title |-> title, dueDate |-> dueDate,
                                         category |-> category])])
    /\ UNCHANGED <<todos, nextId, bin, now, calendar>>

UpdatePut(h) ==
  /\ pc[h] = "upd_put"
  /\ \/ /\ todos' = TodoUpdate(todos, loc[h].taskId, loc[h].body)
        /\ Goto(h, "upd_get", [ok |-> ResponseOk(UpdateStatus(todos, loc[h].taskId))])
     \/ /\ UNCHANGED todos
        /\ Goto(h, "upd_get", [ok |-> FALSE])
  /\ UNCHANGED <<nextId, bin, now, calendar>>

UpdateGet(h) ==
  /\ pc[h] = "upd_get"
  /\ \E reached \in BOOLEAN : Return(h, "update", loc[h], GetTasks(todos, reached))
  /\ UNCHANGED <<todos, nextId, bin, now, calendar>>

\* --------------------------------------------------- Storage.deleteTask
DeleteTask(h) ==
  \E taskId \in Ids :
    /\ Len(bin) < MaxBin
    /\ Enter(h, "del_list", [taskId |-> taskId])
    /\ UNCHANGED <<todos, nextId, bin, now, calendar>>

\* allTasks arrives; a task that is found is stamped and appended to the bin,
\* and the DELETE is issued
DeleteList(h) ==
  /\ pc[h] = "del_list"
  /\ \E reached \in BOOLEAN :
       LET allTasks == GetTasks(todos, reached)
           i == TaskToRecycle(allTasks, loc[h].taskId)
       IN IF i # 0
          THEN /\ bin' = Push(bin, Stamp(allTasks[i], now))
               /\ Goto(h, "del_delete", [found |-> TRUE, stamp |-> now])
          ELSE /\ UNCHANGED bin
               /\ Goto(h, "del_relist", [found |-> FALSE])
  /\ UNCHANGED <<todos, nextId, now, calendar>>

\* DELETE answered: deleteTodo applied, or the fetch failed
DeleteAnswered(h) ==
  /\ pc[h] = "del_delete"
  /\ \/ LET ok == ResponseOk(DeleteStatus(todos, loc[h].taskId))
        IN /\ todos' = TodoDelete(todos, loc[h].taskId)
           /\ Goto(h, IF ok THEN "del_sleep" ELSE "del_relist", [ok |-> ok])
     \/ /\ UNCHANGED todos
        /\ Goto(h, "del_relist", [ok |-> FALSE])
  /\ UNCHANGED <<nextId, bin, now, calendar>>

\* await new Promise(resolve => setTimeout(resolve, 100))
DeleteSleep(h) ==
  /\ pc[h] = "del_sleep"
  /\ Goto(h, "del_relist", EmptyObject)
  /\ UNCHANGED <<todos, nextId, bin, now, calendar>>

\* return await getTasks()
DeleteRelistOptimistic(h) ==
  /\ pc[h] = "del_relist"
  /\ Return(h, "delete", loc[h], FilterId(loc[h].todos0, loc[h].taskId))
  /\ UNCHANGED <<todos, nextId, bin, now, calendar>>

DeleteRelist(h) ==
  /\ pc[h] = "del_relist"
  /\ \E reached \in BOOLEAN : Return(h, "delete", loc[h], GetTasks(todos, reached))
  /\ UNCHANGED <<todos, nextId, bin, now, calendar>>

\* ------------------------------------------- Storage.permanentlyDeleteTask
PermanentlyDeleteTask(h) ==
  \E taskId \in Ids :
    /\ Free(h)
    /\ bin' = FilterId(bin, taskId)
    /\ Return(h, "permanentlyDelete",
              Spread(IdleLoc, [taskId |-> taskId, todos0 |-> todos, bin0 |-> bin]),
              FilterId(bin, taskId))
    /\ UNCHANGED <<todos, nextId, now, calendar>>

\* ------------------------------------------------ Storage.emptyRecycleBin
EmptyRecycleBin(h) ==
  /\ Free(h)
  /\ bin' = Emptied(bin)
  /\ Return(h, "empty", Spread(IdleLoc, [todos0 |-> todos, bin0 |-> bin]), <<>>)
  /\ UNCHANGED <<todos, nextId, now, calendar>>

\* ---------------------------------------------- Storage.cleanupRecycleBin
CleanupRecycleBin(h) ==
  /\ Free(h)
  /\ bin' = FilterExpired(bin, now)
  /\ Return(h, "cleanup",
            Spread(IdleLoc, [stamp |-> now, todos0 |-> todos, bin0 |-> bin]),
            FilterExpired(bin, now))
  /\ UNCHANGED <<todos, nextId, now, calendar>>

\* --------------------------------------------------- Storage.restoreTask
\* recycledTasks is read and searched; an id that is absent returns at once,
\* an id that is found has its entry, less deletedAt, sent to addTask
RestoreTask(h) ==
  \E taskId \in Ids :
    LET recycledTasks == bin
        taskIndex == TaskIndex(recycledTasks, taskId)
    IN /\ Free(h)
       /\ IF taskIndex # 0
          THEN Enter(h, "res_post",
                     [taskId |-> taskId, recycledTasks |-> recycledTasks,
                      taskIndex |-> taskIndex, found |-> TRUE, posts |-> 1,
                      body |-> DeleteProp(recycledTasks[taskIndex], "deletedAt")])
          ELSE Return(h, "restore",
                      Spread(IdleLoc, [taskId |-> taskId, todos0 |-> todos, bin0 |-> bin]),
                      recycledTasks)
       /\ UNCHANGED <<todos, nextId, bin, now, calendar>>

RestorePost(h) ==
  /\ pc[h] = "res_post"
  /\ PostAnswered(h, "res_get")
  /\ UNCHANGED <<bin, now, calendar>>

\* addTask's getTasks answers; restoreTask splices its copy and writes it back
RestoreGet(h) ==
  /\ pc[h] = "res_get"
  /\ LET recycledTasks == Splice(loc[h].recycledTasks, loc[h].taskIndex)
     IN /\ bin' = recycledTasks
        /\ Return(h, "restore", loc[h], recycledTasks)
  /\ UNCHANGED <<todos, nextId, now, calendar>>

\* ---------------------------------------------- Storage.getDatesWithTasks
GetDatesWithTasks(h) ==
  /\ Enter(h, "dates_get", EmptyObject)
  /\ UNCHANGED <<todos, nextId, bin, now, calendar>>

\* getTasks answers; the dates of the tasks it yields are returned
DatesAnswered(h) ==
  /\ pc[h] = "dates_get"
  /\ \E reached \in BOOLEAN :
       Return(h, "dates", Spread(loc[h], [ok |-> reached]),
              DatesWithTasks(GetTasks(todos, reached)))
  /\ UNCHANGED <<todos, nextId, bin, now, calendar>>

\* ------------------------------------------------------------- Calendar
\* createDayElement; dataset.date and the click listener's date are set by
\* generateCalendar on the cells of the month
CreateDayElement(dayNumber, className) ==
  [text |-> dayNumber, className |-> className]

\* const remainingDays = 42 - (startingDayOfWeek + totalDays)
RemainingDaysFiveRows(startingDayOfWeek, totalDays) ==
  35 - (startingDayOfWeek + totalDays)

RemainingDays(startingDayOfWeek, totalDays) ==
  42 - (startingDayOfWeek + totalDays)

\* the three loops of generateCalendar: the cells they append, in order
MonthCells(year, month, datesWithTasks) ==
  LET firstDay == NewDate(year, month, 1)
      lastDay == NewDate(year, month + 1, 0)
      startingDayOfWeek == GetDay(firstDay)
      totalDays == lastDay.date
      prevMonthLastDay == NewDate(year, month, 0).date
      remainingDays == RemainingDays(startingDayOfWeek, totalDays)
      PrevCells ==
        [k \in 1..startingDayOfWeek |->
           CreateDayElement(prevMonthLastDay - (startingDayOfWeek - k), {"other-month"})]
      DayCell(i) ==
        LET date == NewDate(year, month, i)
            dateString == FormatDate(date)
            className ==
              (IF IsSameDay(date, Today) THEN {"today"} ELSE {})
                \cup (IF IsSameDay(date, selectedDate) THEN {"selected"} ELSE {})
                \cup (IF dateString \in Elems(datesWithTasks) THEN {"has-tasks"} ELSE {})
        IN Spread(CreateDayElement(i, className), [date |-> dateString, click |-> date])
      MonthDays == [i \in 1..totalDays |-> DayCell(i)]
      NextCells == [i \in 1..remainingDays |-> CreateDayElement(i, {"other-month"})]
  IN PrevCells \o MonthDays \o NextCells

\* generateCalendar up to its await: the grid is emptied, year and month are read
Generate(d) == [year |-> d.year, month |-> d.month]

\* showCalendar: generateCalendar, then selectDate(new Date())
ShowCalendar(h) ==
  /\ calendarDays' = <<>>
  /\ Enter(h, "cal_dates",
           Spread(Generate(currentDate), [op |-> "showCalendar", then |-> "select"]))
  /\ UNCHANGED <<todos, nextId, bin, now, currentDate, selectedDate>>

PrevMonth(h) ==
  LET d == SetMonth(currentDate, currentDate.month - 1)
  IN /\ MonthsFrom(Today, d) >= -MaxNav
     /\ currentDate' = d
     /\ calendarDays' = <<>>
     /\ Enter(h, "cal_dates", Spread(Generate(d), [op |-> "prevMonth", then |-> "return"]))
     /\ UNCHANGED <<todos, nextId, bin, now, selectedDate>>

NextMonth(h) ==
  LET d == SetMonth(currentDate, currentDate.month + 1)
  IN /\ MonthsFrom(Today, d) <= MaxNav
     /\ currentDate' = d
     /\ calendarDays' = <<>>
     /\ Enter(h, "cal_dates", Spread(Generate(d), [op |-> "nextMonth", then |-> "return"]))
     /\ UNCHANGED <<todos, nextId, bin, now, selectedDate>>

\* a click on a rendered day of the month: selectDate(date)
SelectDate(h) ==
  \E j \in 1..Len(calendarDays) :
    /\ "click" \in DOMAIN calendarDays[j]
    /\ calendarDays[j].text \in ClickDays
    /\ selectedDate' = calendarDays[j].click
    /\ Enter(h, "sel_tasks", [op |-> "selectDate", then |-> "return"])
    /\ UNCHANGED <<todos, nextId, bin, now, currentDate, calendarDays>>

\* selectDate after await getTasksByDate: the tasks of the date are listed (the
\* list element is not part of the state), then generateCalendar starts
SelectTasks(h) ==
  /\ pc[h] = "sel_tasks"
  /\ calendarDays' = <<>>
  /\ Goto(h, "cal_dates", Generate(currentDate))
  /\ UNCHANGED <<todos, nextId, bin, now, currentDate, selectedDate>>

\* generateCalendar after await getDatesWithTasks: the cells are appended; then
\* showCalendar goes on to selectDate(new Date()), the other handlers return
CalendarDates(h) ==
  /\ pc[h] = "cal_dates"
  /\ \E reached \in BOOLEAN :
       LET datesWithTasks == DatesWithTasks(GetTasks(todos, reached))
       IN calendarDays' =
            calendarDays \o MonthCells(loc[h].year, loc[h].month, datesWithTasks)
  /\ IF loc[h].then = "select"
     THEN /\ selectedDate' = Today
          /\ Goto(h, "sel_tasks", [then |-> "return"])
     ELSE /\ Return(h, loc[h].op, loc[h], <<>>)
          /\ UNCHANGED selectedDate
  /\ UNCHANGED <<todos, nextId, bin, now, currentDate>>

\* ------------------------------------------------------- the page (app.js)
\* the ids of the tasks the page lists
IdsOfTodos == {todos[i].id : i \in 1..Len(todos)}

\* the entries listed in the open modal
ModalList == IF "recycledTasksList" \in DOMAIN last THEN last.recycledTasksList ELSE <<>>

\* if (confirm(...)): the handler goes on when the user has accepted
ConfirmIgnored(answer) == TRUE

Confirm(answer) == answer

\* a handler of the page has returned: what it did, and the two stores before
Handled(op, l) ==
  last' = Spread(NoLast, Spread([todos0 |-> todos, bin0 |-> bin], Spread(l, [op |-> op])))

\* the recycle-bin modal is open: last holds its list and its empty-bin button
ModalOpen == last.op \in {"showRecycleBin", "deleteBtn", "emptyBinBtn"}

\* deleteTask of the page, a click on the delete button of a listed task:
\* confirm, then await Storage.deleteTask(taskId)
AppDeleteTask(h) ==
  \E taskId \in IdsOfTodos, answer \in BOOLEAN :
    /\ Len(bin) < MaxBin
    /\ IF Confirm(answer)
       THEN Enter(h, "del_list",
                  [taskId |-> taskId, answer |-> answer, steps |-> <<"confirm">>])
       ELSE /\ Free(h)
            /\ Handled("deleteTask",
                       [taskId |-> taskId, answer |-> answer, steps |-> <<"confirm">>])
            /\ UNCHANGED <<pc, loc>>
    /\ UNCHANGED <<todos, nextId, bin, now, calendar>>

\* Storage.deleteTask's last getTasks answers and the call returns to the
\* page's deleteTask, which starts renderTasks: await Storage.getTasks()
AppDeleteReturned(h) ==
  /\ pc[h] = "del_relist"
  /\ "steps" \in DOMAIN loc[h]
  /\ Goto(h, "app_render", [steps |-> Append(loc[h].steps, "recycle")])
  /\ UNCHANGED <<todos, nextId, bin, now, calendar>>

\* renderTasks' getTasks answers and the list is rendered; then
\* alert('Task has been placed in the recycle bin.')
AppRenderTasks(h) ==
  /\ pc[h] = "app_render"
  /\ pc' = [pc EXCEPT ![h] = "idle"]
  /\ loc' = [loc EXCEPT ![h] = IdleLoc]
  /\ last' = Spread(NoLast,
                    Spread(loc[h], [op |-> "deleteTask",
                                    steps |-> loc[h].steps \o <<"render", "alert">>]))
  /\ UNCHANGED <<todos, nextId, bin, now, calendar>>

\* showRecycleBin: the list is built from getRecycledTasks(), each entry with
\* its Restore and Delete Permanently buttons, the empty-bin button is added
\* when the list is not empty, and cleanupRecycleBin runs last
ShowRecycleBin(h) ==
  LET recycledTasks == bin
  IN /\ Free(h)
     /\ ~ModalOpen
     /\ bin' = FilterExpired(bin, now)
     /\ Handled("showRecycleBin",
                [recycledTasksList |-> recycledTasks,
                 emptyBinBtn |-> Len(recycledTasks) > 0, stamp |-> now])
     /\ UNCHANGED <<todos, nextId, now, pc, loc, calendar>>

\* Delete Permanently clicked on an entry of the modal's list
DeleteBtnClick(h) ==
  \E i \in 1..Len(ModalList), answer \in BOOLEAN :
    LET taskId == ModalList[i].id
    IN /\ Free(h)
       /\ ModalOpen
       /\ IF Confirm(answer)
          THEN /\ bin' = FilterId(bin, taskId)
               /\ Handled("deleteBtn",
                          [recycledTasksList |-> Splice(ModalList, i),
                           emptyBinBtn |-> last.emptyBinBtn,
                           taskId |-> taskId, answer |-> answer])
          ELSE /\ UNCHANGED bin
               /\ Handled("deleteBtn",
                          [recycledTasksList |-> ModalList,
                           emptyBinBtn |-> last.emptyBinBtn,
                           taskId |-> taskId, answer |-> answer])
       /\ UNCHANGED <<todos, nextId, now, pc, loc, calendar>>

\* Empty Recycle Bin clicked
EmptyBinBtnClick(h) ==
  \E answer \in BOOLEAN :
    /\ Free(h)
    /\ ModalOpen
    /\ last.emptyBinBtn
    /\ IF Confirm(answer)
       THEN /\ bin' = Emptied(bin)
            /\ Handled("emptyBinBtn",
                       [recycledTasksList |-> <<>>, emptyBinBtn |-> FALSE,
                        answer |-> answer])
       ELSE /\ UNCHANGED bin
            /\ Handled("emptyBinBtn",
                       [recycledTasksList |-> ModalList, emptyBinBtn |-> TRUE,
                        answer |-> answer])
    /\ UNCHANGED <<todos, nextId, now, pc, loc, calendar>>

\* the modal is closed (the close button, or a click outside its content)
CloseModal ==
  /\ ModalOpen
  /\ last' = NoLast
  /\ UNCHANGED <<todos, nextId, bin, now, pc, loc, calendar>>

\* ----------------------------------------------------------------- clock
Tick ==
  /\ \E d \in TickSteps : now + d <= MaxNow /\ now' = now + d
  /\ UNCHANGED <<todos, nextId, bin, pc, loc, last, calendar>>

\* -------------------------------------------------------- specification
Next ==
  \/ \E h \in Handlers : AddTask(h)
  \/ \E h \in Handlers : AddPost(h)
  \/ \E h \in Handlers : AddGet(h)
  \/ \E h \in Handlers : UpdateTask(h)
  \/ \E h \in Handlers : UpdatePut(h)
  \/ \E h \in Handlers : UpdateGet(h)
  \/ \E h \in Handlers : DeleteTask(h)
  \/ \E h \in Handlers : DeleteList(h)
  \/ \E h \in Handlers : DeleteAnswered(h)
  \/ \E h \in Handlers : DeleteSleep(h)
  \/ \E h \in Handlers : DeleteRelist(h)
  \/ \E h \in Handlers : RestoreTask(h)
  \/ \E h \in Handlers : RestorePost(h)
  \/ \E h \in Handlers : RestoreGet(h)
  \/ \E h \in Handlers : PermanentlyDeleteTask(h)
  \/ \E h \in Handlers : EmptyRecycleBin(h)
  \/ \E h \in Handlers : CleanupRecycleBin(h)
  \/ Tick

Spec == Init /\ [][Next]_vars

\* -------------------------------------- specification: the Task Store
NextStore ==
  \/ CreateTodo
  \/ UpdateTodo
  \/ DeleteTodo

SpecStore == Init /\ [][NextStore]_vars

\* ------------------------------ specification: the recycle-bin modal
\* MaxBin tasks were added, edited and some of them recycled, in the order of
\* their ids, before the modal was opened
ModalTask(id) ==
  Spread(Todo(CHOOSE t \in Titles : TRUE, Undefined, CHOOSE d \in DueDateInputs : TRUE, id, 0),
         [category |-> CHOOSE c \in CategoryOptions : TRUE])

InitModal ==
  \E recycled \in SUBSET (1..MaxBin) :
    LET tasks == [id \in 1..MaxBin |-> ModalTask(id)]
        Recycled(task) == task.id \in recycled
        Active(task) == task.id \notin recycled
        active == SelectSeq(tasks, Active)
        entries == SelectSeq(tasks, Recycled)
    IN /\ todos = active
       /\ nextId = MaxBin + 1
       /\ bin = [j \in 1..Len(entries) |-> Stamp(entries[j], 0)]
       /\ now = 0
       /\ pc = [h \in Handlers \cup Overlapping |-> "idle"]
       /\ loc = [h \in Handlers \cup Overlapping |-> IdleLoc]
       /\ last = NoLast
       /\ currentDate = Today
       /\ selectedDate = Today
       /\ calendarDays = <<>>

NextModal ==
  \/ \E h \in Overlapping : RestoreTask(h)
  \/ \E h \in Overlapping : RestorePost(h)
  \/ \E h \in Overlapping : RestoreGet(h)
  \/ \E h \in Overlapping : PermanentlyDeleteTask(h)
  \/ \E h \in Overlapping : EmptyRecycleBin(h)

SpecModal == InitModal /\ [][NextModal]_vars

\* ------------------------------------- specification: the date index
\* the Task Store holds any list of up to MaxDated tasks, each with any dueDate
DatedTodos ==
  UNION {{[i \in 1..n |-> Todo(CHOOSE t \in Titles : TRUE, Undefined, f[i], i, 0)] :
            f \in [1..n -> DueDates]} : n \in 0..MaxDated}

InitDates ==
  /\ todos \in DatedTodos
  /\ nextId = Len(todos) + 1
  /\ bin = <<>>
  /\ now = 0
  /\ pc = [h \in Handlers |-> "idle"]
  /\ loc = [h \in Handlers |-> IdleLoc]
  /\ last = NoLast
  /\ currentDate = Today
  /\ selectedDate = Today
  /\ calendarDays = <<>>

NextDates ==
  \/ \E h \in Handlers : GetDatesWithTasks(h)
  \/ \E h \in Handlers : DatesAnswered(h)

SpecDates == InitDates /\ [][NextDates]_vars

\* --------------------------------------------- specification: the calendar
\* the Task Store holds no task, or one task due on 1 February 2024
InitCalendar ==
  /\ todos \in {td \in DatedTodos : DatesWithTasks(td) = <<"2024-02-01">> /\ Len(td) <= 1}
                 \cup {<<>>}
  /\ nextId = Len(todos) + 1
  /\ bin = <<>>
  /\ now \in LoadDays
  /\ pc = [h \in Handlers |-> "idle"]
  /\ loc = [h \in Handlers |-> IdleLoc]
  /\ last = NoLast
  /\ currentDate = Today
  /\ selectedDate = Today
  /\ calendarDays = <<>>

NextCalendar ==
  \/ \E h \in Handlers : ShowCalendar(h)
  \/ \E h \in Handlers : PrevMonth(h)
  \/ \E h \in Handlers : NextMonth(h)
  \/ \E h \in Handlers : SelectDate(h)
  \/ \E h \in Handlers : SelectTasks(h)
  \/ \E h \in Handlers : CalendarDates(h)

SpecCalendar == InitCalendar /\ [][NextCalendar]_vars

\* ---------------------------- specification: the calendar, events overlapping
\* the buttons stay enabled while generateCalendar awaits getDatesWithTasks, so
\* an event handler can start while an earlier one is suspended
InitCalendarOverlap ==
  /\ todos = <<>>
  /\ nextId = 1
  /\ bin = <<>>
  /\ now = 0
  /\ pc = [h \in Handlers \cup Overlapping |-> "idle"]
  /\ loc = [h \in Handlers \cup Overlapping |-> IdleLoc]
  /\ last = NoLast
  /\ currentDate = Today
  /\ selectedDate = Today
  /\ calendarDays = <<>>

NextCalendarOverlap ==
  \/ \E h \in Overlapping : ShowCalendar(h)
  \/ \E h \in Overlapping : PrevMonth(h)
  \/ \E h \in Overlapping : NextMonth(h)
  \/ \E h \in Overlapping : SelectDate(h)
  \/ \E h \in Overlapping : SelectTasks(h)
  \/ \E h \in Overlapping : CalendarDates(h)

SpecCalendarOverlap == InitCalendarOverlap /\ [][NextCalendarOverlap]_vars

\* ------------------------------------ specification: the page's handlers
\* tasks are added, recycled from the list with the page's deleteTask, and
\* the recycle-bin modal is opened and used, one handler at a time
NextPage ==
  \/ \E h \in Handlers : AddTask(h)
  \/ \E h \in Handlers : AddPost(h)
  \/ \E h \in Handlers : AddGet(h)
  \/ \E h \in Handlers : AppDeleteTask(h)
  \/ \E h \in Handlers : DeleteList(h)
  \/ \E h \in Handlers : DeleteAnswered(h)
  \/ \E h \in Handlers : DeleteSleep(h)
  \/ \E h \in Handlers : AppDeleteReturned(h)
  \/ \E h \in Handlers : AppRenderTasks(h)
  \/ \E h \in Handlers : ShowRecycleBin(h)
  \/ \E h \in Handlers : DeleteBtnClick(h)
  \/ \E h \in Handlers : EmptyBinBtnClick(h)
  \/ CloseModal
  \/ Tick

SpecPage == Init /\ [][NextPage]_vars

\* ------------------------------------------------------------- claims
IdsOf(s) == {s[i].id : i \in 1..Len(s)}

\* the first element of s that carries id
First(s, id) ==
  s[CHOOSE i \in 1..Len(s) : s[i].id = id /\ \A j \in 1..(i - 1) : s[j].id # id]

\* s without its elements that carry id, in order
RECURSIVE Others(_, _)
Others(s, id) ==
  IF s = <<>> THEN <<>>
  ELSE IF Head(s).id = id THEN Others(Tail(s), id)
       ELSE <<Head(s)>> \o Others(Tail(s), id)

\* the task a recycle or the entry a restore was called for
RecycledT == First(last.todos0, last.taskId)
RestoredR == First(last.bin0, last.taskId)

\* C1: a recycle of a task T of the Task Store whose DELETE succeeded leaves no
\* task with T's id in the Task Store and leaves in the bin an entry that
\* carries T's id and fields and a deletedAt equal to the time of the recycle.
C1_RecycleMovesTaskToBin ==
  (last.op = "delete" /\ last.taskId \in IdsOf(last.todos0) /\ last.ok) =>
    /\ last.taskId \notin IdsOf(todos)
    /\ \E j \in 1..Len(bin) :
         /\ bin[j].id = last.taskId
         /\ DeleteProp(bin[j], "deletedAt") = RecycledT
         /\ bin[j].deletedAt = last.stamp

C1_Witness ==
  /\ last.op = "delete"
  /\ last.taskId \in IdsOf(last.todos0)
  /\ last.ok
  /\ "category" \in DOMAIN RecycledT
  /\ Len(todos) > 0

\* C2: a restore of a bin entry R whose create succeeded adds to the Task Store
\* a task whose title, description, category and dueDate each equal R's.
C2_RestoreRecreatesFields ==
  (last.op = "restore" /\ last.taskId \in IdsOf(last.bin0) /\ last.ok) =>
    \E i \in 1..Len(todos) :
      /\ todos[i] \notin Elems(last.todos0)
      /\ \A f \in {"title", "description", "category", "dueDate"} :
           Get(todos[i], f) = Get(RestoredR, f)

\* C3: after a restore of a bin entry R completes, R is no longer in the bin,
\* the Task Store holds exactly one more task and the bin exactly one entry
\* fewer than before.
C3_RestoreMovesOneEntry ==
  (last.op = "restore" /\ last.taskId \in IdsOf(last.bin0)) =>
    /\ Len(todos) = Len(last.todos0) + 1
    /\ Len(bin) = Len(last.bin0) - 1
    /\ Cardinality({j \in 1..Len(bin) : bin[j] = RestoredR})
         < Cardinality({j \in 1..Len(last.bin0) : last.bin0[j] = RestoredR})

\* C4: cleanupRecycleBin removes exactly the entries whose deletedAt is
\* strictly before now - 30 days and keeps the others in order; an entry
\* whose deletedAt equals now - 30 days is kept.
C4_CleanupKeepsBoundary ==
  (last.op = "cleanup") =>
    LET NotBefore(task) == ~(task.deletedAt < last.stamp - 30)
    IN bin = SelectSeq(last.bin0, NotBefore)

\* C5: when the create issued by a restore fails, the entry stays in the bin.
C5_FailedRestoreKeepsEntry ==
  (last.op = "restore" /\ last.taskId \in IdsOf(last.bin0) /\ ~last.ok) =>
    RestoredR \in Elems(bin)

\* C6: at every step of a recycle of a task T that was in the Task Store when
\* the recycle started, T is in the Task Store or in the bin; while the DELETE
\* is in flight T's entry is already in the bin, and a failed DELETE leaves T
\* in both.
InStore(T) == T \in Elems(todos)
InBin(T) == \E j \in 1..Len(bin) : DeleteProp(bin[j], "deletedAt") = T

C6_RecycleNeverLosesTask ==
  /\ \A h \in Handlers :
       (pc[h] \in {"del_list", "del_delete", "del_sleep", "del_relist"}
          /\ loc[h].taskId \in IdsOf(loc[h].todos0)) =>
         LET T == First(loc[h].todos0, loc[h].taskId)
         IN /\ InStore(T) \/ InBin(T)
            /\ pc[h] = "del_delete" => InBin(T)
  /\ (last.op = "delete" /\ last.taskId \in IdsOf(last.todos0)) =>
       /\ InStore(RecycledT) \/ InBin(RecycledT)
       /\ (last.found /\ ~last.ok) => (InStore(RecycledT) /\ InBin(RecycledT))

C6_Witness ==
  /\ last.op = "delete"
  /\ last.found
  /\ ~last.ok
  /\ InStore(RecycledT)
  /\ InBin(RecycledT)

C8_PermanentDeleteRemovesOnlyId ==
  (last.op = "permanentlyDelete") =>
    /\ bin = Others(last.bin0, last.taskId)
    /\ last.taskId \notin IdsOf(bin)
    /\ (last.taskId \notin IdsOf(last.bin0)) => bin = last.bin0
    /\ FilterId(bin, last.taskId) = bin
    /\ last.ret = bin

C8_Witness ==
  /\ last.op = "permanentlyDelete"
  /\ last.taskId \in IdsOf(last.bin0)
  /\ Len(last.bin0) = 2
  /\ Len(bin) = 1

\* C9: emptyRecycleBin leaves the bin with no entry, whatever it held, and
\* does not change the Task Store.
C9_EmptyBinClearsAll ==
  (last.op = "empty") =>
    /\ bin = <<>>
    /\ last.ret = <<>>
    /\ todos = last.todos0

C9_Witness ==
  /\ last.op = "empty"
  /\ Len(last.bin0) = 2
  /\ Len(todos) > 0

\* C10: a restore of an id with no entry in the bin issues no create, leaves
\* the bin and the Task Store unchanged and returns the bin's contents.
C10_AbsentRestoreIsNoOp ==
  (last.op = "restore" /\ last.taskId \notin IdsOf(last.bin0)) =>
    /\ last.posts = 0
    /\ bin = last.bin0
    /\ todos = last.todos0
    /\ last.ret = bin

C10_Witness ==
  /\ last.op = "restore"
  /\ last.taskId \notin IdsOf(last.bin0)
  /\ Len(last.bin0) > 0
  /\ last.posts = 0

\* the dueDate values carried by at least one task of the Task Store
DueDatesOf(td) ==
  {td[i].dueDate : i \in {j \in 1..Len(td) : td[j].dueDate \notin {"", Null, Undefined}}}

NoDuplicates(s) == \A i, j \in 1..Len(s) : i # j => s[i] # s[j]

IsOtherMonth(cell) == "other-month" \in cell.className

\* C12: a run of generateCalendar for a month whose first day falls on weekday
\* w (Sunday = 0) and that has N days renders exactly 42 cells: w other-month
\* cells, then the days 1..N in order, then 42 - w - N other-month cells; for
\* February 2024 the first 4 cells are other-month and day 1 is the 5th cell.
C12_MonthGridHas42Cells ==
  (last.op \in {"showCalendar", "prevMonth", "nextMonth", "selectDate"}) =>
    LET w == GetDay(NewDate(currentDate.year, currentDate.month, 1))
        N == DaysInMonth(currentDate.year, currentDate.month)
    IN /\ w \in 0..6
       /\ N \in 28..31
       /\ Len(calendarDays) = 42
       /\ \A k \in 1..w : IsOtherMonth(calendarDays[k])
       /\ \A i \in 1..N :
            /\ calendarDays[w + i].text = i
            /\ ~IsOtherMonth(calendarDays[w + i])
       /\ \A k \in (w + N + 1)..42 : IsOtherMonth(calendarDays[k])
       /\ (currentDate.year = 2024 /\ currentDate.month = 1) =>
            /\ w = 4
            /\ N = 29
            /\ \A k \in 1..4 : IsOtherMonth(calendarDays[k])
            /\ calendarDays[5].text = 1
            /\ ~IsOtherMonth(calendarDays[5])

C12_Witness ==
  /\ last.op = "nextMonth"
  /\ currentDate.year = 2024
  /\ currentDate.month = 1
  /\ Len(calendarDays) = 42
  /\ calendarDays[5].date = "2024-02-01"

\* the task a createTodo request that was answered 201 added
Created == todos[Len(todos)]

\* C13: every task created through the Task Store's create has the category
\* the request supplied, or "none" when the request supplied none.
C13_CreateKeepsCategory ==
  (last.op = "createTodo" /\ last.status = 201) =>
    Get(Created, "category")
      = (IF "category" \in DOMAIN last.body THEN last.body.category ELSE "none")

\* C14: after any sequence of create and update requests every stored task has
\* a non-empty title; a create or update request whose title is missing or
\* empty is answered 400 and leaves the Task Store unchanged.
C14_StoredTitlesNonEmpty ==
  /\ \A i \in 1..Len(todos) : ~Falsy(Get(todos[i], "title"))
  /\ (last.op \in {"createTodo", "updateTodo"} /\ Falsy(Get(last.body, "title"))) =>
       /\ last.status = 400
       /\ todos = last.todos0

\* C15: after any sequence of create, update and delete requests the stored
\* tasks have pairwise distinct ids, an update leaves every task's id as it was
\* whatever id its body carries, and create hands out an id that no task of
\* the store holds.
C15_IdsDistinct ==
  /\ \A i, j \in 1..Len(todos) : i # j => todos[i].id # todos[j].id
  /\ \A i \in 1..Len(todos) : todos[i].id < nextId
  /\ (last.op = "updateTodo") =>
       [i \in 1..Len(todos) |-> todos[i].id]
         = [i \in 1..Len(last.todos0) |-> last.todos0[i].id]
  /\ (last.op = "createTodo" /\ last.status = 201) =>
       /\ Created.id \notin IdsOf(last.todos0)
       /\ Created.id = last.nextId0

C15_Witness ==
  /\ last.op = "updateTodo"
  /\ last.status = 200
  /\ "id" \in DOMAIN last.body
  /\ last.body.id # ParseInt(last.param)
  /\ last.body.id \in IdsOf(todos)
  /\ Len(todos) = 2

\* C16: an update or a delete request for an id that no stored task has is
\* answered 404 and leaves the Task Store unchanged.
C16_AbsentIdIsNotFound ==
  (last.op \in {"updateTodo", "deleteTodo"}
     /\ ParseInt(last.param) \notin IdsOf(last.todos0)) =>
    /\ last.status = 404
    /\ todos = last.todos0

C16_Witness ==
  /\ last.op = "updateTodo"
  /\ last.status = 404
  /\ last.param = "x"
  /\ Len(todos) > 0
  /\ "title" \in DOMAIN last.body

\* a recycle during which the list read or the DELETE failed
RecycleFailed ==
  /\ last.op = "delete"
  /\ last.taskId \in IdsOf(last.todos0)
  /\ ~last.found \/ ~last.ok

RECURSIVE IsSubSeq(_, _)
IsSubSeq(a, b) ==
  IF a = <<>> THEN TRUE
  ELSE IF b = <<>> THEN FALSE
  ELSE IF Head(a) = Head(b) THEN IsSubSeq(Tail(a), Tail(b))
  ELSE IsSubSeq(a, Tail(b))

\* a step leaves in the bin entries it held before, unchanged and in order,
\* and adds at most one entry, made by a recycle and stamped with the time of
\* that step
BinStampsKept ==
  \/ IsSubSeq(bin', bin)
  \/ /\ bin' # <<>>
     /\ IsSubSeq(SubSeq(bin', 1, Len(bin') - 1), bin)
     /\ bin'[Len(bin')].deletedAt = now
     /\ \E h \in DOMAIN pc : pc[h] = "del_list" /\ bin'[Len(bin')].id = loc[h].taskId

StoreHasNoDeletedAt == \A i \in 1..Len(todos) : "deletedAt" \notin DOMAIN todos[i]

\* C18: the deletedAt of a bin entry is written when a recycle creates the
\* entry, with the time of that recycle, and no later step changes it while
\* the entry stays in the bin; no task of the Task Store carries a deletedAt.
C18_DeletedAtWrittenOnce == []StoreHasNoDeletedAt /\ [][BinStampsKept]_vars

C18_Witness ==
  /\ last.op = "restore"
  /\ last.ok
  /\ Len(bin) = 1
  /\ bin[1] \in Elems(last.bin0)
  /\ bin[1].deletedAt < now
  /\ Len(todos) = 2

\* C19: after any sequence of recycle, restore, permanentlyDelete, emptyAll and
\* cleanupExpired calls, a recycle that is repeated after its DELETE failed
\* included, the bin holds at most one entry per task id.
C19_OneEntryPerId ==
  \A i, j \in 1..Len(bin) : i # j => bin[i].id # bin[j].id

\* a restore that writes the bin back leaves out of it what was removed from
\* the bin while it awaited, and the entry it restored
RestoreWriteKeepsBinChanges ==
  \A h \in DOMAIN pc :
    (pc[h] = "res_get" /\ pc'[h] = "idle") =>
      /\ IsSubSeq(bin', bin)
      /\ loc[h].taskId \notin IdsOf(bin')

\* with no handler in flight, each of the MaxBin tasks the modal was opened
\* with is an active task or a bin entry at most once: no restored entry has
\* produced two active tasks
NoEntryRestoredTwice ==
  (\A h \in DOMAIN pc : pc[h] = "idle") => Len(todos) + Len(bin) <= MaxBin

\* C20: bin changes made while a restore awaits its create (a second restore,
\* a permanent delete, an empty-bin) are not undone when that restore writes
\* the bin back, the restored entry is no longer in the bin, and once all
\* handlers have completed no restored entry has produced more than one new
\* active task.
C20_BinChangesSurviveRestore ==
  [][RestoreWriteKeepsBinChanges /\ NoEntryRestoredTwice']_vars

\* ------------------------------------------------------------------ C21
\* what a cell shows: its number, whether it is greyed out, its dataset.date
CellFace(cell) ==
  [text |-> cell.text, other |-> IsOtherMonth(cell), date |-> Get(cell, "date")]

Faces(cells) == [i \in 1..Len(cells) |-> CellFace(cells[i])]

\* no handler is suspended, and a render has completed since the grid was
\* last emptied
RendersCompleted ==
  /\ \A h \in DOMAIN pc : pc[h] = "idle"
  /\ calendarDays # <<>>

\* C21: once every pending render has completed, the grid holds exactly 42
\* cells and they are the cells of the month held in currentDate, also when
\* events were fired while an earlier generateCalendar was still awaiting
\* getDatesWithTasks.
C21_SettledGridIsCurrentMonth ==
  RendersCompleted =>
    /\ Len(calendarDays) = 42
    /\ Faces(calendarDays) = Faces(MonthCells(currentDate.year, currentDate.month, <<>>))

\* ------------------------------------------------------------------ C22
\* an entry past the retention window at time t
PastRetention(entry, t) == entry.deletedAt < t - RetentionDays

\* C22: when the bin view has been opened, cleanup has run, the entries shown
\* are the bin's contents after that cleanup, and no shown entry is past the
\* 30-day retention window.
C22_ViewShowsBinAfterCleanup ==
  (last.op = "showRecycleBin") =>
    /\ bin = FilterExpired(last.bin0, last.stamp)
    /\ last.recycledTasksList = bin
    /\ \A i \in 1..Len(last.recycledTasksList) :
         ~PastRetention(last.recycledTasksList[i], last.stamp)

\* ------------------------------------------------------------------ C23
Destructive == {"deleteTask", "deleteBtn", "emptyBinBtn"}

NoticeShown == last.op = "deleteTask" /\ "alert" \in Elems(last.steps)

\* a handler whose confirmation was declined has left both stores as they were
\* and has shown no notice
DeclinedChangesNothing ==
  (last.op \in Destructive /\ ~last.answer) =>
    /\ todos = last.todos0
    /\ bin = last.bin0
    /\ ~NoticeShown

\* the notice comes last: after the confirmation, the recycle call and the
\* re-render of the list, in this order
NoticeComesLast ==
  NoticeShown => last.steps = <<"confirm", "recycle", "render", "alert">>

\* a step of recycle, permanent delete or empty-bin that changes the Task Store
\* or the bin belongs to a handler whose confirmation was accepted
ChangesAreConfirmed ==
  (todos' # todos \/ bin' # bin) =>
    /\ \A h \in DOMAIN pc : pc[h] \in {"del_list", "del_delete"} => loc[h].answer
    /\ last'.op \in {"deleteBtn", "emptyBinBtn"} => last'.answer

\* C23: recycle, permanent delete and empty-bin change the Task Store or the
\* bin only after the user has accepted the confirmation, declining leaves both
\* stores unchanged, and the notice that the task was placed in the recycle bin
\* is shown only after the recycle call and the list re-render have completed.
C23_ConfirmedBeforeChangeNoticeAfter ==
  [](DeclinedChangesNothing /\ NoticeComesLast) /\ [][ChangesAreConfirmed]_vars

\* a recycle was accepted, moved the task to the bin, and the notice was shown
C23_Witness ==
  /\ NoticeShown
  /\ last.answer
  /\ last.found
  /\ last.ok
  /\ last.taskId \in IdsOf(bin)
  /\ last.taskId \notin IdsOf(todos)

====
